---- MODULE Spec2Model ----
(***************************************************************************)
(* Conway's Game of Life (src/main.rs): the Board of Cells, its bounds-     *)
(* checked accessors, neighbour counting, the flip-set scan, tick, the      *)
(* Display adapter and the generation loop of main.                        *)
(***************************************************************************)
EXTENDS Integers, Sequences, FiniteSets, TLC

\* Board dimensions, scaled down from 125 + 1 and 70 + 1 (main.rs:11-12).
\* Index 0 of each axis is the reserved border; the interior is
\* 1..BOARD_WIDTH-1 by 1..BOARD_HEIGHT-1.
BOARD_WIDTH == 7
BOARD_HEIGHT == 6

\* Longest sequence of accessor calls issued by the API driver (SpecApi).
MaxOps == 3

VARIABLES
    board,      \* Board.board : [[Cell; BOARD_HEIGHT]; BOARD_WIDTH]
    pc,         \* position of the running program
    to_flip,    \* the Vec returned by get_cells_to_flip (tick's local to_flip)
    it,         \* number of elements of to_flip already consumed by tick's loop
    stdout,     \* the frames written to the terminal, the last two of them
    ret,        \* what the last accessor call handed back to its caller
    nops,       \* number of calls issued by a driver (accessor calls, or ticks)
    targets     \* the coordinates chosen by a test

vars == <<board, pc, to_flip, it, stdout, ret, nops, targets>>

-----------------------------------------------------------------------------
\* Option<T>

None == <<>>
Some(v) == <<v>>
unwrap(o) == o[1]

\* usize subtraction: below zero it panics ("attempt to subtract with
\* overflow", main.rs:3) in a build with overflow checks and wraps in one
\* without; Underflow stands for either outcome.
Underflow == 0 - 1
usize_sub(a, b) == IF a >= b THEN a - b ELSE Underflow

-----------------------------------------------------------------------------
\* Cell

Cell(a, x, y) == [alive |-> a, x_coord |-> x, y_coord |-> y]

Cell_flip_sets(cell) == [cell EXCEPT !.alive = TRUE]
Cell_flip(cell) == [cell EXCEPT !.alive = ~cell.alive]

Cell_fmt(cell) == IF cell.alive THEN "█" ELSE "░"

-----------------------------------------------------------------------------
\* Board

get_cell_noborder(b, coords) ==
    IF coords[1] = BOARD_WIDTH \/ coords[2] = BOARD_HEIGHT
    THEN None
    ELSE IF coords[1] \in DOMAIN b
         THEN IF coords[2] \in DOMAIN b[coords[1]]
              THEN Some(b[coords[1]][coords[2]])
              ELSE None
         ELSE None

\* The slice lookups board.get(x) and column.get(y) answer None past the end.
get_cell(b, coords) ==
    IF coords[1] = 0 \/ coords[2] = 0 \/
       coords[1] = BOARD_WIDTH \/ coords[2] = BOARD_HEIGHT
    THEN None
    ELSE IF coords[1] \in DOMAIN b
         THEN IF coords[2] \in DOMAIN b[coords[1]]
              THEN Some(b[coords[1]][coords[2]])
              ELSE None
         ELSE None

get_cell_mut_noborder(b, coords) ==
    IF coords[1] = BOARD_WIDTH \/ coords[2] = BOARD_HEIGHT
    THEN None
    ELSE IF coords[1] \in DOMAIN b
         THEN IF coords[2] \in DOMAIN b[coords[1]]
              THEN Some(<<coords[1], coords[2]>>)
              ELSE None
         ELSE None

\* Option<&mut Cell>: the reference is the slot it points to.
get_cell_mut(b, coords) ==
    IF coords[1] = 0 \/ coords[2] = 0 \/
       coords[1] = BOARD_WIDTH \/ coords[2] = BOARD_HEIGHT
    THEN None
    ELSE IF coords[1] \in DOMAIN b
         THEN IF coords[2] \in DOMAIN b[coords[1]]
              THEN Some(<<coords[1], coords[2]>>)
              ELSE None
         ELSE None

\* The cell behind a &mut Cell, and a write through it.
deref(b, slot) == b[slot[1]][slot[2]]
store(b, slot, cell) == [b EXCEPT ![slot[1]][slot[2]] = cell]

Board_new_swapped ==
    LET zero == [x \in 0..(BOARD_WIDTH - 1) |->
                    [y \in 0..(BOARD_HEIGHT - 1) |-> Cell(FALSE, 0, 0)]]
    IN [x \in 0..(BOARD_WIDTH - 1) |-> [y \in 0..(BOARD_HEIGHT - 1) |->
           IF x \in 1..(BOARD_WIDTH - 1) /\ y \in 1..(BOARD_HEIGHT - 1)
           THEN [deref(zero, unwrap(get_cell_mut(zero, <<x, y>>)))
                    EXCEPT !.x_coord = y, !.y_coord = x]
           ELSE zero[x][y]]]

\* Every slot starts as Cell {false, 0, 0}; the loops over 1..BOARD_WIDTH and
\* 1..BOARD_HEIGHT then write each cell's own coordinates through
\* get_cell_mut(..).unwrap().
Board_new ==
    LET zero == [x \in 0..(BOARD_WIDTH - 1) |->
                    [y \in 0..(BOARD_HEIGHT - 1) |-> Cell(FALSE, 0, 0)]]
    IN [x \in 0..(BOARD_WIDTH - 1) |-> [y \in 0..(BOARD_HEIGHT - 1) |->
           IF x \in 1..(BOARD_WIDTH - 1) /\ y \in 1..(BOARD_HEIGHT - 1)
           THEN [deref(zero, unwrap(get_cell_mut(zero, <<x, y>>)))
                    EXCEPT !.x_coord = x, !.y_coord = y]
           ELSE zero[x][y]]]

\* TRUE when one of the subtractions coords.0 - 1, coords.1 - 1 panics.
underflows(coords) ==
    usize_sub(coords[1], 1) = Underflow \/ usize_sub(coords[2], 1) = Underflow

alive_at_any(b, coords) ==
    IF get_cell(b, coords) # None THEN 1 ELSE 0

\* One `if let Some(cell) = self.get_cell(..) { if cell.alive { n += 1 } }`.
alive_at(b, coords) ==
    LET o == get_cell(b, coords)
    IN IF o # None /\ unwrap(o).alive THEN 1 ELSE 0

count_adjacent_alive_self(b, coords) ==
    IF underflows(coords)
    THEN Underflow
    ELSE alive_at(b, <<usize_sub(coords[1], 1), usize_sub(coords[2], 1)>>)
       + alive_at(b, <<usize_sub(coords[1], 1), coords[2]>>)
       + alive_at(b, <<usize_sub(coords[1], 1), coords[2] + 1>>)
       + alive_at(b, <<coords[1], usize_sub(coords[2], 1)>>)
       + alive_at(b, <<coords[1], coords[2]>>)
       + alive_at(b, <<coords[1], coords[2] + 1>>)
       + alive_at(b, <<coords[1] + 1, usize_sub(coords[2], 1)>>)
       + alive_at(b, <<coords[1] + 1, coords[2]>>)
       + alive_at(b, <<coords[1] + 1, coords[2] + 1>>)

\* The eight lookups in source order; Underflow when a `coords - 1` panics.
count_adjacent_alive(b, coords) ==
    IF underflows(coords)
    THEN Underflow
    ELSE alive_at(b, <<usize_sub(coords[1], 1), usize_sub(coords[2], 1)>>)
       + alive_at(b, <<usize_sub(coords[1], 1), coords[2]>>)
       + alive_at(b, <<usize_sub(coords[1], 1), coords[2] + 1>>)
       + alive_at(b, <<coords[1], usize_sub(coords[2], 1)>>)
       + alive_at(b, <<coords[1], coords[2] + 1>>)
       + alive_at(b, <<coords[1] + 1, usize_sub(coords[2], 1)>>)
       + alive_at(b, <<coords[1] + 1, coords[2]>>)
       + alive_at(b, <<coords[1] + 1, coords[2] + 1>>)

must_flip_swapped(cell, num_adjacent_alive) ==
    IF ~cell.alive
    THEN num_adjacent_alive # 2 /\ num_adjacent_alive # 3
    ELSE num_adjacent_alive = 3

must_flip_survive2only(cell, num_adjacent_alive) ==
    IF cell.alive
    THEN num_adjacent_alive # 2
    ELSE num_adjacent_alive = 3

\* The two `match num_adjacent_alive` blocks: TRUE when the cell is pushed.
must_flip(cell, num_adjacent_alive) ==
    IF cell.alive
    THEN num_adjacent_alive # 2 /\ num_adjacent_alive # 3
    ELSE num_adjacent_alive = 3

\* The slots visited by `for column in &self.board[1..BOARD_WIDTH]`,
\* `for cell in &column[1..BOARD_HEIGHT]`, in that order.
RECURSIVE scan_order(_, _)
scan_order(x, y) ==
    IF x >= BOARD_WIDTH THEN <<>>
    ELSE IF y >= BOARD_HEIGHT THEN scan_order(x + 1, 1)
    ELSE <<<<x, y>>>> \o scan_order(x, y + 1)

scan_slots_from_border == scan_order(0, 1)

scan_slots == scan_order(1, 1)

\* The naive in-place pass: each decision is flipped into the board before
\* the next cell is examined.
RECURSIVE scan_in_place(_, _, _)
scan_in_place(b, slots, k) ==
    IF k > Len(slots) THEN <<>>
    ELSE LET cell == deref(b, slots[k])
             n == count_adjacent_alive(b, <<cell.x_coord, cell.y_coord>>)
         IN IF must_flip(cell, n)
            THEN <<<<cell.x_coord, cell.y_coord>>>>
                 \o scan_in_place(store(b, slots[k], Cell_flip(cell)), slots, k + 1)
            ELSE scan_in_place(b, slots, k + 1)

get_cells_to_flip_in_place(b) == scan_in_place(b, scan_slots, 1)

\* The cells the two loops visit, in their order.
scanned(b) == [k \in 1..Len(scan_slots) |-> deref(b, scan_slots[k])]

\* The loop body: count_adjacent_alive at the coordinates stored in the cell,
\* then the match on the count; TRUE when the cell's coordinates are pushed.
pushed(b, cell) ==
    must_flip(cell, count_adjacent_alive(b, <<cell.x_coord, cell.y_coord>>))

\* The coordinates pushed are the ones stored in the cells, not the indices.
get_cells_to_flip(b) ==
    LET hits == SelectSeq(scanned(b), LAMBDA cell : pushed(b, cell))
    IN [i \in 1..Len(hits) |-> <<hits[i].x_coord, hits[i].y_coord>>]

\* get_cells_to_flip panics when a count_adjacent_alive call inside it does.
scan_panics(b) ==
    \E k \in 1..Len(scan_slots) :
        underflows(<<deref(b, scan_slots[k]).x_coord, deref(b, scan_slots[k]).y_coord>>)

\* Display for Board: one line per y, the glyph of every cell get_cell finds.
RECURSIVE fmt_row(_, _, _)
fmt_row(b, x, y) ==
    IF x >= BOARD_WIDTH THEN <<>>
    ELSE (IF get_cell(b, <<x, y>>) # None
          THEN <<Cell_fmt(unwrap(get_cell(b, <<x, y>>)))>>
          ELSE <<>>) \o fmt_row(b, x + 1, y)

RECURSIVE fmt_rows(_, _)
fmt_rows(b, y) ==
    IF y >= BOARD_HEIGHT THEN <<>>
    ELSE <<fmt_row(b, 1, y)>> \o fmt_rows(b, y + 1)

Board_fmt(b) == fmt_rows(b, 1)

-----------------------------------------------------------------------------
\* The calls a caller composes from the accessors

\* board.get_cell_mut(coords) followed by cell.flip() on the cell it yields;
\* nothing is written when it yields None.
flip_at(b, coords) ==
    LET o == get_cell_mut(b, coords)
    IN IF o # None
       THEN store(b, unwrap(o), Cell_flip(deref(b, unwrap(o))))
       ELSE b

\* board.get_cell_mut(coords) followed by cell.alive = value.
set_alive_at(b, coords, value) ==
    LET o == get_cell_mut(b, coords)
    IN IF o # None
       THEN store(b, unwrap(o), [deref(b, unwrap(o)) EXCEPT !.alive = value])
       ELSE b

\* main's seeding loops: every (x, y) of 1..BOARD_WIDTH by 1..BOARD_HEIGHT gets
\* its sample; live is the set of coordinates whose sample came out true.
seed(b, live) ==
    [x \in 0..(BOARD_WIDTH - 1) |-> [y \in 0..(BOARD_HEIGHT - 1) |->
        IF x \in 1..(BOARD_WIDTH - 1) /\ y \in 1..(BOARD_HEIGHT - 1)
        THEN [deref(b, unwrap(get_cell_mut(b, <<x, y>>)))
                 EXCEPT !.alive = (<<x, y>> \in live)]
        ELSE b[x][y]]]

-----------------------------------------------------------------------------
\* Coordinates

Interior == (1..(BOARD_WIDTH - 1)) \X (1..(BOARD_HEIGHT - 1))

Range(s) == {s[k] : k \in 1..Len(s)}

\* The eight Moore-neighbour positions of c.
Moore(c) ==
    {<<c[1] + dx, c[2] + dy>> : dx \in -1..1, dy \in -1..1} \ {c}

\* A cell and its neighbours, as far as they are on the board.
Block(c) == (Moore(c) \cup {c}) \cap Interior

\* The samples the seeding draws are bounded to the blocks around the cells
\* next to the four corners, so that every cell of a block, border cells
\* included, sees every configuration of its neighbourhood.
SeedCentres ==
    {<<2, 2>>, <<BOARD_WIDTH - 2, BOARD_HEIGHT - 2>>,
     <<2, BOARD_HEIGHT - 2>>, <<BOARD_WIDTH - 2, 2>>}

Samples == UNION {SUBSET Block(c) : c \in SeedCentres}

-----------------------------------------------------------------------------
\* tick

\* let to_flip = self.get_cells_to_flip(); control moves to the loop.
tick_call ==
    IF scan_panics(board)
    THEN /\ pc' = "panicked"
         /\ UNCHANGED <<board, to_flip, it, stdout, ret, nops, targets>>
    ELSE /\ to_flip' = get_cells_to_flip(board)
         /\ it' = 0
         /\ pc' = "tick_loop"
         /\ UNCHANGED <<board, stdout, ret, nops, targets>>

\* One iteration of `for coords in to_flip.iter()`.
TickApply ==
    /\ pc = "tick_loop"
    /\ it < Len(to_flip)
    /\ board' = flip_at(board, to_flip[it + 1])
    /\ it' = it + 1
    /\ UNCHANGED <<pc, to_flip, stdout, ret, nops, targets>>

-----------------------------------------------------------------------------
\* main

MainInit ==
    /\ \E live \in Samples : board = seed(Board_new, live)
    /\ pc = "println"
    /\ to_flip = <<>>
    /\ it = 0
    /\ stdout = <<>>
    /\ ret = <<"new", TRUE>>
    /\ nops = 0
    /\ targets = <<>>

\* println!("{}", board)
Main_println ==
    /\ pc = "println"
    /\ stdout' = <<Board_fmt(board)>>
    /\ pc' = "tick"
    /\ UNCHANGED <<board, to_flip, it, ret, nops, targets>>

\* board.tick() of the loop
MainTick ==
    /\ pc = "tick"
    /\ tick_call

MainTickReturn_to_tick ==
    /\ pc = "tick_loop"
    /\ it = Len(to_flip)
    /\ pc' = "tick"
    /\ to_flip' = <<>>
    /\ it' = 0
    /\ UNCHANGED <<board, stdout, ret, nops, targets>>

MainTickReturn ==
    /\ pc = "tick_loop"
    /\ it = Len(to_flip)
    /\ pc' = "print"
    /\ to_flip' = <<>>
    /\ it' = 0
    /\ UNCHANGED <<board, stdout, ret, nops, targets>>

Main_print_in_loop ==
    /\ pc \in {"print", "tick_loop"}
    /\ stdout' = <<stdout[Len(stdout)], Board_fmt(board)>>
    /\ pc' = IF pc = "print" THEN "tick" ELSE pc
    /\ UNCHANGED <<board, to_flip, it, ret, nops, targets>>

\* The clear code, print!("{}", board) and the sleep; the terminal keeps the
\* frame it showed before and the new one.
Main_print ==
    /\ pc = "print"
    /\ stdout' = <<stdout[Len(stdout)], Board_fmt(board)>>
    /\ pc' = "tick"
    /\ UNCHANGED <<board, to_flip, it, ret, nops, targets>>

Next == Main_println \/ MainTick \/ TickApply \/ MainTickReturn \/ Main_print

Spec == MainInit /\ [][Next]_vars

\* main is one sequential thread: println!, tick, its loop, print! and the
\* 100 ms sleep all return, so the step that is due is eventually taken.
FairSpec == MainInit /\ [][Next]_vars /\ WF_vars(Next)

-----------------------------------------------------------------------------
\* A caller of the Board API: Board::new(), then any ticks and at most MaxOps
\* calls of the accessors and of get_cells_to_flip.

\* Every coordinate a caller may pass: the board, its border and beyond.
Probe == (0..(BOARD_WIDTH + 1)) \X (0..(BOARD_HEIGHT + 1))

\* The coordinates the driver passes: those next to either end of an axis.
Near(limit) == {0, 1, 2} \cup ((limit - 2)..(limit + 1))
Picks == Near(BOARD_WIDTH) \X Near(BOARD_HEIGHT)

ApiInit ==
    /\ board = Board_new
    /\ pc = "idle"
    /\ to_flip = <<>>
    /\ it = 0
    /\ stdout = <<>>
    /\ ret = <<"new", TRUE>>
    /\ nops = 0
    /\ targets = <<>>

\* board.get_cell(coords): the caller learns whether a cell is there;
\* &self leaves the board as it is.
GetCellAt(coords) ==
    /\ pc = "idle"
    /\ nops < MaxOps
    /\ ret' = <<"get_cell", get_cell(board, coords) # None>>
    /\ nops' = nops + 1
    /\ to_flip' = <<>>
    /\ UNCHANGED <<board, pc, it, stdout, targets>>

CallGetCell == \E coords \in Picks : GetCellAt(coords)

\* if let Some(cell) = board.get_cell_mut(coords) { cell.alive = value }
SetAliveAt(coords, value) ==
    /\ pc = "idle"
    /\ nops < MaxOps
    /\ ret' = <<"set_alive", get_cell_mut(board, coords) # None>>
    /\ board' = set_alive_at(board, coords, value)
    /\ nops' = nops + 1
    /\ to_flip' = <<>>
    /\ UNCHANGED <<pc, it, stdout, targets>>

CallSetAlive == \E coords \in Picks, value \in BOOLEAN : SetAliveAt(coords, value)

\* if let Some(cell) = board.get_cell_mut(coords) { cell.flip() }
FlipAt(coords) ==
    /\ pc = "idle"
    /\ nops < MaxOps
    /\ ret' = <<"flip", get_cell_mut(board, coords) # None>>
    /\ board' = flip_at(board, coords)
    /\ nops' = nops + 1
    /\ to_flip' = <<>>
    /\ UNCHANGED <<pc, it, stdout, targets>>

CallFlip == \E coords \in Picks : FlipAt(coords)

CallGetCellsToFlip_in_place ==
    /\ pc = "idle"
    /\ nops < MaxOps
    /\ ret' = <<"get_cells_to_flip", TRUE>>
    /\ ~scan_panics(board)
    /\ to_flip' = get_cells_to_flip_in_place(board)
    /\ board' = [x \in DOMAIN board |-> [y \in DOMAIN board[x] |->
                    IF <<x, y>> \in Range(get_cells_to_flip_in_place(board))
                    THEN Cell_flip(board[x][y])
                    ELSE board[x][y]]]
    /\ nops' = nops + 1
    /\ UNCHANGED <<pc, it, stdout, targets>>

\* let v = board.get_cells_to_flip(): the caller holds the Vec until its
\* next accessor call; &self leaves the board as it is.
CallGetCellsToFlip ==
    /\ pc = "idle"
    /\ nops < MaxOps
    /\ ret' = <<"get_cells_to_flip", TRUE>>
    /\ ~scan_panics(board)
    /\ to_flip' = get_cells_to_flip(board)
    /\ nops' = nops + 1
    /\ UNCHANGED <<board, pc, it, stdout, targets>>

\* board.tick()
ApiTick ==
    /\ pc = "idle"
    /\ tick_call

ApiTickReturn ==
    /\ pc = "tick_loop"
    /\ it = Len(to_flip)
    /\ pc' = "idle"
    /\ to_flip' = <<>>
    /\ it' = 0
    /\ ret' = <<"tick", TRUE>>
    /\ UNCHANGED <<board, stdout, nops, targets>>

ApiNext ==
    \/ CallGetCell
    \/ CallSetAlive
    \/ CallFlip
    \/ CallGetCellsToFlip
    \/ ApiTick
    \/ TickApply
    \/ ApiTickReturn

SpecApi == ApiInit /\ [][ApiNext]_vars

-----------------------------------------------------------------------------
\* tests::board_get_cells_to_flip_1

\* The order of (usize, usize): by the first component, then by the second.
tuple_le(a, b) == a[1] < b[1] \/ (a[1] = b[1] /\ a[2] <= b[2])

RECURSIVE insert_sorted(_, _)
insert_sorted(v, e) ==
    IF v = <<>> THEN <<e>>
    ELSE IF tuple_le(e, v[1]) THEN <<e>> \o v
    ELSE <<v[1]>> \o insert_sorted(Tail(v), e)

\* Vec::sort
RECURSIVE sort(_)
sort(v) == IF v = <<>> THEN <<>> ELSE insert_sorted(sort(Tail(v)), v[1])

\* rng.gen_range(0..BOARD_WIDTH), rng.gen_range(1..BOARD_HEIGHT)
TestRange == (0..(BOARD_WIDTH - 1)) \X (1..(BOARD_HEIGHT - 1))

\* setup() and the three draws coords1, coords2, coords3.
Test1Init ==
    /\ board = Board_new
    /\ targets \in TestRange \X TestRange \X TestRange
    /\ pc = "test_flip"
    /\ to_flip = <<>>
    /\ it = 0
    /\ stdout = <<>>
    /\ ret = <<"new", TRUE>>
    /\ nops = 0

\* for coords in [..].iter() { board.get_cell_mut(*coords).unwrap().flip() }
\* from element k on: the board it leaves, and whether an unwrap of None
\* stopped it with a panic.
RECURSIVE flip_each(_, _, _)
flip_each(b, coords, k) ==
    IF k > Len(coords) THEN <<b, FALSE>>
    ELSE LET o == get_cell_mut(b, coords[k])
         IN IF o = None
            THEN <<b, TRUE>>
            ELSE flip_each(store(b, unwrap(o), Cell_flip(deref(b, unwrap(o)))),
                           coords, k + 1)

TestFlip ==
    /\ pc = "test_flip"
    /\ board' = flip_each(board, targets, 1)[1]
    /\ pc' = IF flip_each(board, targets, 1)[2] THEN "panicked" ELSE "test_assert"
    /\ UNCHANGED <<to_flip, it, stdout, ret, nops, targets>>

\* flipped and test_result are sorted and compared by assert_eq!.
TestAssert ==
    /\ pc = "test_assert"
    /\ IF scan_panics(board)
       THEN /\ pc' = "panicked"
            /\ to_flip' = to_flip
       ELSE /\ to_flip' = sort(get_cells_to_flip(board))
            /\ pc' = IF sort(targets) = to_flip' THEN "passed" ELSE "failed"
    /\ UNCHANGED <<board, it, stdout, ret, nops, targets>>

Test1Next == TestFlip \/ TestAssert

SpecTest1 == Test1Init /\ [][Test1Next]_vars

-----------------------------------------------------------------------------
\* tests::board_get_cells_to_flip_2 .. _5: a fixed figure is flipped alive on
\* a fresh board and get_cells_to_flip is called.  The driver places each
\* figure at every position where it fits, and goes on ticking the board as
\* main's loop does, calling get_cells_to_flip again between the ticks.

\* Completed ticks are counted in nops up to MaxTicks, where the count stays.
MaxTicks == 2

\* The coordinates the four tests flip, in the order of their arrays.
test_2_cells == <<<<4, 4>>, <<4, 5>>, <<5, 5>>>>
test_3_cells == <<<<1, 1>>>>
test_4_cells == <<<<1, 1>>, <<1, 2>>, <<2, 2>>, <<2, 1>>>>
test_5_cells == <<<<1, 1>>, <<1, 2>>, <<2, 2>>, <<2, 1>>, <<3, 1>>, <<3, 2>>>>

Shifted(p, d) == [k \in 1..Len(p) |-> <<p[k][1] + d[1], p[k][2] + d[2]>>]

\* The figure p at every position where all of it is on the board.
Placements(p) ==
    {Shifted(p, d) :
        d \in {e \in ((0 - BOARD_WIDTH)..BOARD_WIDTH) \X ((0 - BOARD_HEIGHT)..BOARD_HEIGHT) :
                  Range(Shifted(p, e)) \subseteq Interior}}

Figures ==
    Placements(test_2_cells) \cup Placements(test_3_cells)
        \cup Placements(test_4_cells) \cup Placements(test_5_cells)

\* setup() and the array of coordinates the test iterates over.
TestsInit ==
    /\ board = Board_new
    /\ targets \in Figures
    /\ pc = "test_flip"
    /\ to_flip = <<>>
    /\ it = 0
    /\ stdout = <<>>
    /\ ret = <<"new", TRUE>>
    /\ nops = 0

\* let test_result = board.get_cells_to_flip();
TestScan ==
    /\ pc = "test_assert"
    /\ IF scan_panics(board)
       THEN /\ pc' = "panicked"
            /\ to_flip' = to_flip
       ELSE /\ to_flip' = get_cells_to_flip(board)
            /\ pc' = "test_result"
    /\ UNCHANGED <<board, it, stdout, ret, nops, targets>>

\* board.tick()
TestTick ==
    /\ pc = "test_result"
    /\ tick_call

TestTickReturn ==
    /\ pc = "tick_loop"
    /\ it = Len(to_flip)
    /\ pc' = "test_assert"
    /\ to_flip' = <<>>
    /\ it' = 0
    /\ nops' = IF nops < MaxTicks THEN nops + 1 ELSE nops
    /\ UNCHANGED <<board, stdout, ret, targets>>

TestsNext == TestFlip \/ TestScan \/ TestTick \/ TickApply \/ TestTickReturn

SpecTests == TestsInit /\ [][TestsNext]_vars

-----------------------------------------------------------------------------
\* The rule B3/S23 on sets of live coordinates, with hard boundaries: the
\* reference the claims compare the program with.

LiveCells(b) == {c \in Interior : b[c[1]][c[2]].alive}

LiveNeighbours(live, c) == Cardinality(Moore(c) \cap live)

FlipSet(live) ==
    {c \in Interior :
        IF c \in live
        THEN LiveNeighbours(live, c) \notin {2, 3}
        ELSE LiveNeighbours(live, c) = 3}

LifeStep(live) ==
    {c \in Interior :
        \/ c \in live /\ LiveNeighbours(live, c) \in {2, 3}
        \/ c \notin live /\ LiveNeighbours(live, c) = 3}

\* The live coordinates a frame on the terminal shows: line y, glyph x.
Shown(frame) ==
    {c \in Interior :
        /\ c[2] <= Len(frame)
        /\ c[1] <= Len(frame[c[2]])
        /\ frame[c[2]][c[1]] = "█"}

\* A frame with one line per interior row and one glyph per interior column.
FullFrame(frame) ==
    /\ Len(frame) = BOARD_HEIGHT - 1
    /\ \A y \in 1..Len(frame) : Len(frame[y]) = BOARD_WIDTH - 1

LastFrame == stdout[Len(stdout)]

IsCorner(c) == c[1] \in {1, BOARD_WIDTH - 1} /\ c[2] \in {1, BOARD_HEIGHT - 1}
IsEdge(c) == c[1] \in {1, BOARD_WIDTH - 1} \/ c[2] \in {1, BOARD_HEIGHT - 1}

-----------------------------------------------------------------------------
\* Claims checked on the generation loop (Spec)

\* C1: when tick has returned, an interior cell is alive exactly when, on the
\* board as it was before the tick (the frame on the terminal), it was alive
\* with 2 or 3 live neighbours or dead with exactly 3, off-grid neighbours
\* counting as dead; flips applied earlier in the tick do not enter the counts.
C1_TickIsLifeStep ==
    pc = "print" =>
        /\ FullFrame(LastFrame)
        /\ LiveCells(board) = LifeStep(Shown(LastFrame))

\* A tick that killed a crowded cell, let a cell survive and gave birth.
C1_Witness ==
    /\ pc = "print"
    /\ \E c \in Shown(LastFrame) :
          LiveNeighbours(Shown(LastFrame), c) > 3 /\ c \notin LiveCells(board)
    /\ \E c \in Shown(LastFrame) : c \in LiveCells(board)
    /\ \E c \in LiveCells(board) : c \notin Shown(LastFrame)

\* C2: the Vec get_cells_to_flip returns holds exactly the interior
\* coordinates whose cell is alive with a count other than 2 or 3 or dead
\* with a count of 3, each once, and get_cell_mut finds a cell at each.
C2_FlipSetExact ==
    (pc = "tick_loop" /\ it = 0) =>
        /\ Range(to_flip) = FlipSet(LiveCells(board))
        /\ Cardinality(Range(to_flip)) = Len(to_flip)
        /\ \A k \in 1..Len(to_flip) : get_cell_mut(board, to_flip[k]) # None

\* A flip set holding a death by isolation, a death by crowding and a birth,
\* while some live cell is kept.
C2_Witness ==
    /\ pc = "tick_loop" /\ it = 0
    /\ \E c \in Range(to_flip) :
          c \in LiveCells(board) /\ LiveNeighbours(LiveCells(board), c) < 2
    /\ \E c \in Range(to_flip) :
          c \in LiveCells(board) /\ LiveNeighbours(LiveCells(board), c) > 3
    /\ \E c \in Range(to_flip) : c \notin LiveCells(board)
    /\ \E c \in LiveCells(board) : c \notin Range(to_flip)

\* C3: at every interior coordinate count_adjacent_alive returns, without
\* panicking, the number of alive cells among the eight neighbour positions
\* at which get_cell finds a cell; it is within 0..8, at most 3 at a corner
\* and at most 5 on an edge.
C3_CountIsMooreCount ==
    \A c \in Interior :
        LET n == count_adjacent_alive(board, c)
        IN /\ n # Underflow
           /\ n = Cardinality({d \in Moore(c) :
                     /\ get_cell(board, d) # None
                     /\ unwrap(get_cell(board, d)).alive})
           /\ n \in 0..8
           /\ IsCorner(c) => n <= 3
           /\ IsEdge(c) => n <= 5

\* A board on which a corner counts 3, an edge cell 5 and an inner cell 8.
C3_Witness ==
    /\ \E c \in Interior : IsCorner(c) /\ count_adjacent_alive(board, c) = 3
    /\ \E c \in Interior :
          IsEdge(c) /\ ~IsCorner(c) /\ count_adjacent_alive(board, c) = 5
    /\ \E c \in Interior : count_adjacent_alive(board, c) = 8

\* C6: every frame on the terminal is a complete generation: two successive
\* frames are a board and its B3/S23 successor, the frame shown when a tick
\* starts is the board itself, and the flip set a tick works through was
\* computed from the board last shown, never from a partly flipped one.
C6_FramesAreGenerations ==
    /\ \A k \in 1..Len(stdout) : FullFrame(stdout[k])
    /\ Len(stdout) = 2 => Shown(stdout[2]) = LifeStep(Shown(stdout[1]))
    /\ pc = "tick" => Shown(LastFrame) = LiveCells(board)
    /\ pc = "tick_loop" => Range(to_flip) = FlipSet(Shown(LastFrame))

\* The terminal shows a generation and its different successor while the
\* board stands part-way through the next batch of flips.
C6_Witness ==
    /\ Len(stdout) = 2
    /\ stdout[1] # stdout[2]
    /\ pc = "tick_loop"
    /\ it > 0 /\ it < Len(to_flip)
    /\ LiveCells(board) # Shown(LastFrame)

\* C17: on every board of the loop the coordinates get_cells_to_flip reads
\* from a scanned cell and passes to count_adjacent_alive satisfy
\* 1 <= x <= BOARD_WIDTH-1 and 1 <= y <= BOARD_HEIGHT-1: neither subtraction
\* coords - 1 goes below 0, neither addition coords + 1 exceeds BOARD_WIDTH
\* or BOARD_HEIGHT, the count is a number, and tick never panics.
C17_ScanCoordinatesInRange ==
    /\ pc # "panicked"
    /\ \A k \in 1..Len(scan_slots) :
          LET cell == deref(board, scan_slots[k])
              x == cell.x_coord
              y == cell.y_coord
          IN /\ 1 <= x /\ x <= BOARD_WIDTH - 1
             /\ 1 <= y /\ y <= BOARD_HEIGHT - 1
             /\ usize_sub(x, 1) # Underflow
             /\ usize_sub(y, 1) # Underflow
             /\ x + 1 <= BOARD_WIDTH
             /\ y + 1 <= BOARD_HEIGHT
             /\ count_adjacent_alive(board, <<x, y>>) # Underflow

\* A tick whose scan found the cell (1,1), where both subtractions yield 0,
\* in need of a flip.
C17_Witness ==
    /\ pc = "tick_loop"
    /\ it = 0
    /\ <<1, 1>> \in Range(to_flip)
    /\ Len(stdout) = 2

-----------------------------------------------------------------------------
\* Claims checked on the API driver (SpecApi)

Slots == (0..(BOARD_WIDTH - 1)) \X (0..(BOARD_HEIGHT - 1))

\* C4: get_cell answers with a cell exactly at the coordinates with
\* 1 <= x <= BOARD_WIDTH-1 and 1 <= y <= BOARD_HEIGHT-1, and then with the
\* cell stored at (x, y); at every other coordinate, on the border or past
\* the end, it answers None; and a get_cell call leaves the board as it was.
C4_GetCellBounds ==
    /\ [](\A c \in Probe :
            LET o == get_cell(board, c)
            IN /\ (o # None) <=> (c \in Interior)
               /\ o # None =>
                     /\ unwrap(o) = board[c[1]][c[2]]
                     /\ unwrap(o).x_coord = c[1]
                     /\ unwrap(o).y_coord = c[2])
    /\ [][\A c \in Picks :
            GetCellAt(c) => /\ board' = board
                            /\ ret'[2] = (c \in Interior)]_vars

\* A read that found no cell, on a board that holds live cells.
C4_Witness ==
    /\ ret = <<"get_cell", FALSE>>
    /\ LiveCells(board) # {}

\* C5: a set_alive or flip at a coordinate outside the interior hands None
\* back to the caller and leaves every cell as it was; and tick never passes
\* such a coordinate to get_cell_mut, so its loop drops no request.
C5_OutOfBoundsMutation ==
    /\ [](pc = "tick_loop" =>
            \A k \in 1..Len(to_flip) : get_cell_mut(board, to_flip[k]) # None)
    /\ [][\A c \in Picks \ Interior :
            (FlipAt(c) \/ \E v \in BOOLEAN : SetAliveAt(c, v)) =>
                /\ ret'[2] = FALSE
                /\ board' = board]_vars

\* A flip of an absent cell was answered with None on a board holding live
\* cells.
C5_Witness ==
    /\ ret = <<"flip", FALSE>>
    /\ LiveCells(board) # {}

\* C7: a flip at an interior coordinate makes the cell read back as the
\* negation of what it was, a second flip there restores the board, and no
\* other cell and no coordinate changes; on every board, at every interior
\* coordinate.
C7_FlipInvolution ==
    /\ [](\A c \in Interior :
            LET once == flip_at(board, c)
            IN /\ unwrap(get_cell(once, c)).alive = ~unwrap(get_cell(board, c)).alive
               /\ flip_at(once, c) = board
               /\ \A d \in Slots \ {c} : once[d[1]][d[2]] = board[d[1]][d[2]]
               /\ once[c[1]][c[2]].x_coord = board[c[1]][c[2]].x_coord
               /\ once[c[1]][c[2]].y_coord = board[c[1]][c[2]].y_coord)
    /\ [][\A c \in Picks \cap Interior :
            FlipAt(c) =>
                /\ ret'[2] = TRUE
                /\ unwrap(get_cell(board', c)).alive = ~unwrap(get_cell(board, c)).alive
                /\ \A d \in Slots \ {c} : board'[d[1]][d[2]] = board[d[1]][d[2]]
                /\ flip_at(board', c) = board]_vars

\* After three calls, the last a flip that found its cell, one cell is alive.
C7_Witness ==
    /\ ret = <<"flip", TRUE>>
    /\ nops >= 3
    /\ Cardinality(LiveCells(board)) = 1

C9_CoordinatesFixed ==
    /\ [](\A c \in Interior :
            /\ board[c[1]][c[2]].x_coord = c[1]
            /\ board[c[1]][c[2]].y_coord = c[2])
    /\ [][\A d \in Slots :
            /\ board'[d[1]][d[2]].x_coord = board[d[1]][d[2]].x_coord
            /\ board'[d[1]][d[2]].y_coord = board[d[1]][d[2]].y_coord]_vars

\* A tick has run on a board built by writes and flips and left cells alive.
C9_Witness ==
    /\ ret = <<"tick", TRUE>>
    /\ nops >= 3
    /\ LiveCells(board) # {}

\* No slot of the array, border included, holds an alive cell.
AllDead(b) == \A d \in Slots : ~b[d[1]][d[2]].alive

\* C15: as long as the caller has only built the board, get_cell finds a
\* dead cell at every interior coordinate; and on every board without an
\* alive cell, a fresh one or one emptied again, count_adjacent_alive
\* returns 0 at every interior coordinate.
C15_DeadBoardCountsZero ==
    /\ ret[1] = "new" =>
          \A c \in Interior :
              /\ get_cell(board, c) # None
              /\ ~unwrap(get_cell(board, c)).alive
    /\ AllDead(board) =>
          \A c \in Interior : count_adjacent_alive(board, c) = 0

\* A board on which a cell was flipped alive and dead again.
C15_Witness ==
    /\ AllDead(board)
    /\ ret = <<"flip", TRUE>>
    /\ nops >= 2

\* The grid of the specification (its sections 3 and 4): zero-based, GridWidth
\* by GridHeight, a Boolean per coordinate, nothing beyond its edges.
GridWidth == BOARD_WIDTH - 1
GridHeight == BOARD_HEIGHT - 1
GridCoords == (0..(GridWidth - 1)) \X (0..(GridHeight - 1))

Grid_new == [c \in GridCoords |-> FALSE]
Grid_get(g, c) == IF c \in GridCoords THEN Some(g[c]) ELSE None
Grid_flip(g, c) == IF c \in GridCoords THEN [g EXCEPT ![c] = ~g[c]] ELSE g

count_live_neighbors(g, c) ==
    Cardinality({d \in Moore(c) :
                    Grid_get(g, d) # None /\ unwrap(Grid_get(g, d))})

compute_flip_set(g) ==
    {c \in GridCoords :
        IF g[c]
        THEN count_live_neighbors(g, c) \notin {2, 3}
        ELSE count_live_neighbors(g, c) = 3}

advance(g) ==
    LET flips == compute_flip_set(g)
    IN [c \in GridCoords |-> IF c \in flips THEN ~g[c] ELSE g[c]]

\* The mapping (x, y) -> (x - 1, y - 1), and the grid a board stands for.
ToGrid(c) == <<c[1] - 1, c[2] - 1>>
GridOf(b) == [c \in GridCoords |-> b[c[1] + 1][c[2] + 1].alive]

\* The board a running tick started from: the flips applied so far undone.
RECURSIVE BeforeFlips(_, _, _)
BeforeFlips(b, flips, k) ==
    IF k = 0 THEN b ELSE BeforeFlips(flip_at(b, flips[k]), flips, k - 1)

\* C16: the board and the zero-based grid it maps to agree, in every state
\* reached by flips and ticks from Board::new(): a coordinate holds a cell
\* on the one exactly when its image does on the other, with the same
\* state; neighbour counts are equal at every cell; the coordinates
\* get_cells_to_flip returns map onto the grid's flip set; a flip changes
\* board and grid alike and is answered alike (a flip off the board changes
\* neither, whichever coordinate off the board it names); and when tick's
\* loop is done the board maps to the advance of the grid the tick started
\* from.
C16_BoardRefinesGrid ==
    /\ [](LET g == GridOf(board)
          IN /\ ret[1] = "new" => g = Grid_new
             /\ \A c \in Probe :
                   LET o == get_cell(board, c)
                       a == Grid_get(g, ToGrid(c))
                   IN /\ (o # None) <=> (a # None)
                      /\ o # None => unwrap(o).alive = unwrap(a)
             /\ \A c \in Interior :
                   count_adjacent_alive(board, c) = count_live_neighbors(g, ToGrid(c))
             /\ (pc = "idle" /\ ret[1] = "get_cells_to_flip") =>
                   {ToGrid(c) : c \in Range(to_flip)} = compute_flip_set(g)
             /\ (pc = "tick_loop" /\ it = 0) =>
                   {ToGrid(c) : c \in Range(to_flip)} = compute_flip_set(g)
             /\ (pc = "tick_loop" /\ it = Len(to_flip)) =>
                   g = advance(GridOf(BeforeFlips(board, to_flip, it))))
    /\ [][ret'[1] = "flip" =>
            LET g == GridOf(board)
                h == GridOf(board')
            IN /\ \A c \in Picks \cap Interior :
                     FlipAt(c) =>
                         /\ h = Grid_flip(g, ToGrid(c))
                         /\ ret'[2] = (ToGrid(c) \in GridCoords)
               /\ (\E c \in Picks \ Interior : FlipAt(c)) =>
                     \A c \in Picks \ Interior :
                         /\ h = Grid_flip(g, ToGrid(c))
                         /\ ret'[2] = (ToGrid(c) \in GridCoords)]_vars

\* A tick's loop is done after flipping a corner cell, among others.
C16_Witness ==
    /\ pc = "tick_loop"
    /\ it = Len(to_flip)
    /\ Len(to_flip) > 1
    /\ \E k \in 1..Len(to_flip) : IsCorner(to_flip[k])

-----------------------------------------------------------------------------
\* Claims checked on tests::board_get_cells_to_flip_1 (SpecTest1)

TestOver == pc \in {"passed", "failed", "panicked"}

Scattered(t) ==
    /\ Range(t) \subseteq Interior
    /\ Cardinality(Range(t)) = Len(t)
    /\ \A c \in Range(t) : Cardinality(Moore(c) \cap Range(t)) < 2
    /\ \A d \in Interior \ Range(t) : Cardinality(Moore(d) \cap Range(t)) < 3

-----------------------------------------------------------------------------
\* Claims checked on the figures of tests::board_get_cells_to_flip_2 .. _5
\* (SpecTests)

\* C11: on the board whose only live cells are (1,1), (1,2), (2,1), (2,2),
\* (3,1) and (3,2), get_cells_to_flip returns exactly (2,1), (2,2) and (2,3),
\* each once: the two live cells of the middle column and the dead cell
\* below them; every coordinate returned is on the board.
C11_SixCellsFlipMiddleColumn ==
    (targets = test_5_cells /\ pc = "test_result" /\ nops = 0) =>
        /\ LiveCells(board) =
              {<<1, 1>>, <<1, 2>>, <<2, 1>>, <<2, 2>>, <<3, 1>>, <<3, 2>>}
        /\ sort(to_flip) = <<<<2, 1>>, <<2, 2>>, <<2, 3>>>>
        /\ Range(to_flip) \subseteq Interior

\* The six cells are alive and the scan has returned, while the off-grid
\* position (2,0) has three live neighbours.
C11_Witness ==
    /\ targets = test_5_cells
    /\ pc = "test_result"
    /\ nops = 0
    /\ to_flip # <<>>
    /\ LiveNeighbours(LiveCells(board), <<2, 0>>) = 3

\* C12: on the board whose only live cells are (4,4), (4,5) and (5,5),
\* get_cells_to_flip returns the Vec [(5,4)], and the first tick leaves
\* exactly the block (4,4), (4,5), (5,4), (5,5) alive.
C12_TrominoBecomesBlock ==
    targets = test_2_cells =>
        /\ (pc = "test_result" /\ nops = 0) =>
              /\ LiveCells(board) = {<<4, 4>>, <<4, 5>>, <<5, 5>>}
              /\ to_flip = <<<<5, 4>>>>
        /\ (pc = "test_assert" /\ nops = 1) =>
              LiveCells(board) = {<<4, 4>>, <<4, 5>>, <<5, 4>>, <<5, 5>>}

\* The first tick on the tromino has returned.
C12_Witness ==
    /\ targets = test_2_cells
    /\ pc = "test_assert"
    /\ nops = 1
    /\ LiveCells(board) # Range(targets)

\* C13: wherever the 2x2 block is placed on the board, the corner included,
\* every get_cells_to_flip call returns the empty Vec and the four cells of
\* the block, and no others, are alive before, during and after every tick.
C13_BlockIsStillLife ==
    (targets \in Placements(test_4_cells) /\ pc # "test_flip") =>
        /\ pc # "panicked"
        /\ to_flip = <<>>
        /\ LiveCells(board) = Range(targets)

\* The block in the corner (1,1) .. (2,2) after MaxTicks ticks and a scan.
C13_Witness ==
    /\ targets = test_4_cells
    /\ pc = "test_result"
    /\ nops = MaxTicks

\* C14: with a single live cell, at any position of the board,
\* get_cells_to_flip returns the Vec holding that coordinate alone, and
\* once a tick has returned no cell is alive.
C14_LoneCellDies ==
    targets \in Placements(test_3_cells) =>
        /\ (pc = "test_result" /\ nops = 0) =>
              /\ LiveCells(board) = Range(targets)
              /\ to_flip = targets
        /\ (pc \in {"test_assert", "test_result"} /\ nops >= 1) =>
              /\ LiveCells(board) = {}
              /\ to_flip = <<>>

\* The first tick on a lone cell away from the edges has returned.
C14_Witness ==
    /\ targets \in Placements(test_3_cells)
    /\ ~IsEdge(targets[1])
    /\ pc = "test_assert"
    /\ nops = 1

-----------------------------------------------------------------------------
\* Further claims checked on the generation loop (Spec)

\* The board is all dead and no flip is pending.
DeadAtRest ==
    /\ AllDead(board)
    /\ \/ pc \in {"println", "tick", "print"}
       \/ pc = "tick_loop" /\ to_flip = <<>>

\* C19: the all-dead board is a fixed point of tick: the scan of an all-dead
\* board returns the empty Vec, and once the board is all dead between two
\* ticks, the fresh board that was seeded with no alive cell included, every
\* later step of the loop leaves it all dead with nothing to flip.
C19_AllDeadIsFixedPoint ==
    /\ []((AllDead(board) /\ pc = "tick_loop" /\ it = 0) => to_flip = <<>>)
    /\ [][DeadAtRest => DeadAtRest']_vars

\* A tick runs on an all-dead board that an earlier tick already left all
\* dead.
C19_Witness ==
    /\ AllDead(board)
    /\ pc = "tick_loop"
    /\ Len(stdout) = 2
    /\ Shown(stdout[1]) = {}
    /\ Shown(stdout[2]) = {}

-----------------------------------------------------------------------------
\* Claim checked on the generation loop under fairness (FairSpec)

\* C18: main never stops and never panics; it renders the seeded board,
\* then goes tick, render, tick, render: a render is followed by the call of
\* tick, the call by tick's loop, the loop by a render; the board changes
\* only inside tick and the terminal only in a render; again and again a
\* tick is done and its render due, and again and again a render is done
\* and the next tick due, which in that order of steps makes every tick
\* followed by a render and every render by a tick; the
\* first frame shows the seeded board and every later frame the B3/S23
\* successor of the frame before it, so the k-th frame after the first
\* shows generation k.
C18_LoopForever ==
    /\ [](pc \in {"println", "tick", "tick_loop", "print"} /\ ENABLED Next)
    /\ [][/\ pc = "println" => pc' = "tick"
          /\ pc = "tick" => pc' = "tick_loop"
          /\ pc = "tick_loop" => pc' \in {"tick_loop", "print"}
          /\ pc = "print" => pc' = "tick"
          /\ board' # board => (pc = "tick_loop" /\ pc' = "tick_loop")
          /\ stdout' # stdout => pc \in {"println", "print"}
          /\ pc = "println" =>
                /\ Len(stdout') = 1
                /\ Shown(stdout'[1]) = LiveCells(board)
          /\ pc = "print" =>
                /\ Len(stdout') = 2
                /\ stdout'[1] = stdout[Len(stdout)]
                /\ Shown(stdout'[2]) = LiveCells(board)
                /\ Shown(stdout'[2]) = LifeStep(Shown(stdout'[1]))]_vars
    /\ []<>(pc = "print")
    /\ []<>(pc = "tick")

\* At least two frames are out, the last tick changed the board and its
\* render is due.
C18_Witness ==
    /\ pc = "print"
    /\ Len(stdout) = 2
    /\ stdout[1] # stdout[2]
    /\ LiveCells(board) # Shown(stdout[2])

====
